---- MODULE Spec2Model ----
(***************************************************************************)
(* A model of the analytics backend (src/analytics): the relational state  *)
(* declared in models.py, the access policy and the visibility querysets   *)
(* of views.py, and the nested Event creation of serializers.py.           *)
(*                                                                         *)
(* Every handler is one action; the nested Event creation is a sequence   *)
(* of autocommitted inserts and is modelled as one action per insert, and  *)
(* concurrent add_member and remove_member calls as one action per         *)
(* database statement.  Time is a counter of instants read by              *)
(* timezone.now().  Callers range over authenticated identities:           *)
(* permissions.IsAuthenticated rejects every other request before a        *)
(* handler runs.                                                           *)
(***************************************************************************)
EXTENDS Integers, FiniteSets, Sequences, TLC

\* ------------------------------------------------------------------ bounds
NumUsers == 2
MaxSessions == 1
MaxEvents == 1
MaxTags == 1
MaxDashboards == 1
MaxWidgets == 1
MaxCalls == 2
MaxTime == 3
MaxSamples == 2

\* ------------------------------------------------------------ value domains
\* Python None: a null foreign key, an absent query parameter or payload field.
None == 0

\* auth_user rows (the identities); a user_id that matches no row.
Users == 1 .. NumUsers
UnknownUser == NumUsers + 1
UserIds == Users \cup {UnknownUser, None}

\* Two projects: one the caller has access to and one the caller has not.
ProjectIds == {1, 2}

\* Free text of Project.description (Project.name is written the same way).
Descriptions == {"d0", "d1"}

SessionIds == 1 .. MaxSessions
EventIds == 1 .. MaxEvents
TagIds == 1 .. MaxTags
DashboardIds == 1 .. MaxDashboards
WidgetIds == 1 .. MaxWidgets

\* Session.user_id (an external identifier); "" is the empty/absent string.
ExternalIds == {"x", "y"}
\* A subset of Event.EVENT_TYPES.
EventTypes == {"user_prompt", "other"}
ModelNames == {"m1", "m2"}
\* None and a subset of Feedback.RATING_CHOICES.
Ratings == {None, 1, 5}
TagNames == {"t1", "t2"}

SAFE_METHODS == {"GET", "HEAD", "OPTIONS"}

VARIABLES
    projects,    \* analytics_project: id -> [owner, members, description]
    sessions,    \* analytics_session: id -> [project, user_id, start_time,
                 \*                           end_time]
    events,      \* analytics_event: id -> [project, session, event_type,
                 \*                         timestamp]
    prompts,     \* analytics_userprompt: id -> [event, model_name, tokens]
    responses,   \* analytics_airesponse: id -> [event, prompt, model_name,
                 \*                              tokens, latency]
    feedbacks,   \* analytics_feedback: id -> [event, response, rating]
    tags,        \* analytics_tag: id -> [project, name]
    dashboards,  \* analytics_dashboard: id -> [project]
    widgets,     \* analytics_widget: id -> [dashboard]
    creating,    \* the EventCreateSerializer.create call in progress
    http,        \* the last request and its response status
    now,         \* timezone.now(), in days; the first instant is 1
    calls        \* the membership requests in progress, one per worker

eventRows == <<events, prompts, responses, feedbacks>>
boardRows == <<tags, dashboards, widgets>>
database == <<projects, sessions, eventRows, boardRows>>
\* What a handler that runs alone in one instant leaves as it is.
ambient == <<now, calls>>
vars == <<database, creating, http, ambient>>

\* ------------------------------------------------------------- primary keys
\* uuid.uuid4: an identifier no live row carries.
NewId(table, ids) == CHOOSE i \in ids \ DOMAIN table :
                        \A j \in ids \ DOMAIN table : i <= j

Drop(table, gone) == [i \in DOMAIN table \ gone |-> table[i]]

Put(table, i, row) == [j \in DOMAIN table \cup {i} |->
                          IF j = i THEN row ELSE table[j]]

\* ------------------------------------------------- resolving the project
SessionProject(s) == sessions[s].project
EventProject(e) == events[e].project
PromptProject(x) == events[prompts[x].event].project
ResponseProject(r) == events[responses[r].event].project
FeedbackProject(f) == events[feedbacks[f].event].project
TagProject(t) == tags[t].project
DashboardProject(d) == dashboards[d].project
WidgetProject(w) == dashboards[widgets[w].dashboard].project

\* The reverse one-to-one accessors event.user_prompt and event.ai_response.
EventUserPrompt(e) == CHOOSE x \in DOMAIN prompts : prompts[x].event = e
EventAIResponse(e) == CHOOSE r \in DOMAIN responses : responses[r].event = e

\* --------------------------------------------------------------- querysets
\* A queryset is the multiset of rows its SQL returns: id -> multiplicity.
All(table) == [i \in DOMAIN table |-> 1]

\* QuerySet.filter on columns of the row itself: keep is the set of rows that
\* satisfy the condition.
Where(qs, keep) == [i \in DOMAIN qs |-> IF i \in keep THEN qs[i] ELSE 0]

\* The rows of project p in  project LEFT OUTER JOIN project_members.
MemberJoin(p) == IF projects[p].members = {} THEN {None}
                 ELSE projects[p].members

\* Q(owner=user) | Q(members=user) over that join: the number of joined rows
\* of project p that satisfy it.
AccessRows(p, user) ==
    Cardinality({m \in MemberJoin(p) : projects[p].owner = user \/ m = user})

\* QuerySet.filter(Q(..project__owner=user) | Q(..project__members=user));
\* proj maps each row to the project it resolves to.
WhereAccess(qs, proj, user) ==
    [i \in DOMAIN qs |-> qs[i] * AccessRows(proj[i], user)]

\* A queryset that drops .distinct().
Distinct_Skipped(qs) == qs

\* QuerySet.distinct()
Distinct(qs) == [i \in DOMAIN qs |-> IF qs[i] > 0 THEN 1 ELSE 0]

\* A queryset that filters on Q(owner=user) alone.
Project_get_queryset_OwnerOnly(user) ==
    [p \in DOMAIN projects |-> IF projects[p].owner = user THEN 1 ELSE 0]

\* ProjectViewSet.get_queryset
Project_get_queryset(user) ==
    Distinct([p \in DOMAIN projects |-> AccessRows(p, user)])

\* SessionViewSet.get_queryset; q = [project, user_id]
Session_get_queryset(user, q) ==
    LET byProject == {s \in DOMAIN sessions :
                         q.project = None \/ sessions[s].project = q.project}
        byUserId == {s \in DOMAIN sessions :
                        q.user_id = "" \/ sessions[s].user_id = q.user_id}
    IN Distinct(WhereAccess(Where(Where(All(sessions), byProject), byUserId),
                            [s \in DOMAIN sessions |-> SessionProject(s)], user))

\* EventViewSet.get_queryset; q = [project, session, event_type]
Event_get_queryset(user, q) ==
    LET byProject == {e \in DOMAIN events :
                         q.project = None \/ events[e].project = q.project}
        bySession == {e \in DOMAIN events :
                         q.session = None \/ events[e].session = q.session}
        byType == {e \in DOMAIN events :
                      q.event_type = "" \/ events[e].event_type = q.event_type}
    IN Distinct(WhereAccess(
           Where(Where(Where(All(events), byProject), bySession), byType),
           [e \in DOMAIN events |-> EventProject(e)], user))

\* UserPromptViewSet.get_queryset; q = [project, model_name]
UserPrompt_get_queryset(user, q) ==
    LET byProject == {x \in DOMAIN prompts :
                         q.project = None \/ PromptProject(x) = q.project}
        byModel == {x \in DOMAIN prompts :
                       q.model_name = "" \/ prompts[x].model_name = q.model_name}
    IN Distinct(WhereAccess(Where(Where(All(prompts), byProject), byModel),
                            [x \in DOMAIN prompts |-> PromptProject(x)], user))

\* AIResponseViewSet.get_queryset; q = [project, model_name]
AIResponse_get_queryset(user, q) ==
    LET byProject == {r \in DOMAIN responses :
                         q.project = None \/ ResponseProject(r) = q.project}
        byModel == {r \in DOMAIN responses :
                       q.model_name = "" \/ responses[r].model_name = q.model_name}
    IN Distinct(WhereAccess(Where(Where(All(responses), byProject), byModel),
                            [r \in DOMAIN responses |-> ResponseProject(r)], user))

\* FeedbackViewSet.get_queryset; q = [project, rating]
Feedback_get_queryset(user, q) ==
    LET byProject == {f \in DOMAIN feedbacks :
                         q.project = None \/ FeedbackProject(f) = q.project}
        byRating == {f \in DOMAIN feedbacks :
                        q.rating = None \/ feedbacks[f].rating = q.rating}
    IN Distinct(WhereAccess(Where(Where(All(feedbacks), byProject), byRating),
                            [f \in DOMAIN feedbacks |-> FeedbackProject(f)], user))

\* TagViewSet.get_queryset; q = [project]
Tag_get_queryset(user, q) ==
    LET byProject == {t \in DOMAIN tags :
                         q.project = None \/ tags[t].project = q.project}
    IN Distinct(WhereAccess(Where(All(tags), byProject),
                            [t \in DOMAIN tags |-> TagProject(t)], user))

\* DashboardViewSet.get_queryset; q = [project]
Dashboard_get_queryset(user, q) ==
    LET byProject == {d \in DOMAIN dashboards :
                         q.project = None \/ dashboards[d].project = q.project}
    IN Distinct(WhereAccess(Where(All(dashboards), byProject),
                            [d \in DOMAIN dashboards |-> DashboardProject(d)], user))

\* WidgetViewSet.get_queryset; q = [dashboard]
Widget_get_queryset(user, q) ==
    LET byDashboard == {w \in DOMAIN widgets :
                           q.dashboard = None \/ widgets[w].dashboard = q.dashboard}
    IN Distinct(WhereAccess(Where(All(widgets), byDashboard),
                            [w \in DOMAIN widgets |-> WidgetProject(w)], user))

\* A detail request carries no filter parameter.
NoQuery == [project |-> None, session |-> None, dashboard |-> None,
            user_id |-> "", event_type |-> "", model_name |-> "",
            rating |-> None]

\* ----------------------------------------------------------- access policy
\* hasattr(obj, 'owner') and hasattr(obj, 'project'), by model (models.py).
HasOwner(kind) == kind = "Project"
HasProject(kind) == kind \in {"Session", "Event", "Tag", "Dashboard"}

\* obj.project of a row that has one.
ObjProject(kind, pk) ==
    CASE kind = "Session" -> sessions[pk].project
      [] kind = "Event" -> events[pk].project
      [] kind = "Tag" -> tags[pk].project
      [] kind = "Dashboard" -> dashboards[pk].project

\* A policy that lets the members of a project write to it as well.
has_object_permission_MemberWrites(method, kind, pk, user) ==
    IF method \in SAFE_METHODS THEN TRUE
    ELSE IF HasOwner(kind)
    THEN projects[pk].owner = user \/ user \in projects[pk].members
    ELSE IF HasProject(kind) THEN projects[ObjProject(kind, pk)].owner = user
    ELSE FALSE

\* A policy that takes the project of a Widget or a Feedback from its parent
\* row, so that the owner of that project may write to it.
has_object_permission_ThroughParent(method, kind, pk, user) ==
    IF method \in SAFE_METHODS THEN TRUE
    ELSE IF HasOwner(kind) THEN projects[pk].owner = user
    ELSE IF HasProject(kind) THEN projects[ObjProject(kind, pk)].owner = user
    ELSE IF kind = "Widget" THEN projects[WidgetProject(pk)].owner = user
    ELSE IF kind = "Feedback" THEN projects[FeedbackProject(pk)].owner = user
    ELSE FALSE

\* IsOwnerOrReadOnly.has_object_permission
has_object_permission(method, kind, pk, user) ==
    IF method \in SAFE_METHODS THEN TRUE
    ELSE IF HasOwner(kind) THEN projects[pk].owner = user
    ELSE IF HasProject(kind) THEN projects[ObjProject(kind, pk)].owner = user
    ELSE FALSE

\* GenericAPIView.get_object: get_object_or_404 on the view's queryset, then
\* check_object_permissions.
get_object(qs, method, kind, pk, user) ==
    IF pk \notin DOMAIN qs \/ qs[pk] = 0 THEN "NotFound"
    ELSE IF qs[pk] > 1 THEN "ServerError"
    ELSE IF ~has_object_permission(method, kind, pk, user) THEN "Forbidden"
    ELSE "OK"

ProjectObject(method, p, user) ==
    get_object(Project_get_queryset(user), method, "Project", p, user)
SessionObject(method, s, user) ==
    get_object(Session_get_queryset(user, NoQuery), method, "Session", s, user)
EventObject(method, e, user) ==
    get_object(Event_get_queryset(user, NoQuery), method, "Event", e, user)
FeedbackObject(method, f, user) ==
    get_object(Feedback_get_queryset(user, NoQuery), method, "Feedback", f, user)
TagObject(method, t, user) ==
    get_object(Tag_get_queryset(user, NoQuery), method, "Tag", t, user)
DashboardObject(method, d, user) ==
    get_object(Dashboard_get_queryset(user, NoQuery), method, "Dashboard", d, user)
WidgetObject(method, w, user) ==
    get_object(Widget_get_queryset(user, NoQuery), method, "Widget", w, user)

\* ---------------------------------------------------------------- cascades
\* on_delete=CASCADE (models.py): the rows that go with the seed rows.
Cascade(seedP, seedS, seedE, seedT, seedD) ==
    LET dS == seedS \cup {s \in DOMAIN sessions : sessions[s].project \in seedP}
        dE == seedE \cup {e \in DOMAIN events :
                  events[e].project \in seedP \/ events[e].session \in dS}
        dU == {x \in DOMAIN prompts : prompts[x].event \in dE}
        dR == {r \in DOMAIN responses :
                  responses[r].event \in dE \/ responses[r].prompt \in dU}
        dF == {f \in DOMAIN feedbacks :
                  feedbacks[f].event \in dE \/ feedbacks[f].response \in dR}
        dT == seedT \cup {t \in DOMAIN tags : tags[t].project \in seedP}
        dD == seedD \cup {d \in DOMAIN dashboards : dashboards[d].project \in seedP}
        dW == {w \in DOMAIN widgets : widgets[w].dashboard \in dD}
    IN [projects |-> seedP, sessions |-> dS, events |-> dE, prompts |-> dU,
        responses |-> dR, feedbacks |-> dF, tags |-> dT, dashboards |-> dD,
        widgets |-> dW]

\* Collector.delete: remove the collected rows.
Delete(gone) ==
    /\ projects' = Drop(projects, gone.projects)
    /\ sessions' = Drop(sessions, gone.sessions)
    /\ events' = Drop(events, gone.events)
    /\ prompts' = Drop(prompts, gone.prompts)
    /\ responses' = Drop(responses, gone.responses)
    /\ feedbacks' = Drop(feedbacks, gone.feedbacks)
    /\ tags' = Drop(tags, gone.tags)
    /\ dashboards' = Drop(dashboards, gone.dashboards)
    /\ widgets' = Drop(widgets, gone.widgets)

Exchange(op, user, pk, status) ==
    [op |-> op, user |-> user, pk |-> pk, status |-> status]

Idle == [pc |-> "idle"]

\* The handler answers without touching the database.
Reply(op, user, pk, status) ==
    /\ http' = Exchange(op, user, pk, status)
    /\ UNCHANGED <<database, creating, ambient>>

\* ---------------------------------------------------------------- projects
\* POST /projects/ (perform_create: owner = request.user)
CreateProject(user, description) ==
    /\ creating.pc = "idle"
    /\ DOMAIN projects # ProjectIds
    /\ LET p == NewId(projects, ProjectIds) IN
       /\ projects' = Put(projects, p, [owner |-> user, members |-> {},
                                        description |-> description])
       /\ http' = Exchange("project.create", user, p, "Created")
    /\ UNCHANGED <<sessions, eventRows, boardRows, creating, ambient>>

\* PUT/PATCH /projects/{p}/ (owner and members are read-only fields)
UpdateProject(user, p, description) ==
    /\ creating.pc = "idle"
    /\ LET st == ProjectObject("PUT", p, user) IN
       IF st # "OK" THEN Reply("project.update", user, p, st)
       ELSE /\ projects' = [projects EXCEPT ![p].description = description]
            /\ http' = Exchange("project.update", user, p, "OK")
            /\ UNCHANGED <<sessions, eventRows, boardRows, creating, ambient>>

\* DELETE /projects/{p}/
DestroyProject(user, p) ==
    /\ creating.pc = "idle"
    /\ LET st == ProjectObject("DELETE", p, user) IN
       IF st # "OK" THEN Reply("project.destroy", user, p, st)
       ELSE /\ Delete(Cascade({p}, {}, {}, {}, {}))
            /\ http' = Exchange("project.destroy", user, p, "NoContent")
            /\ UNCHANGED <<creating, ambient>>

\* A lookup that only checks that a user_id was sent.
UserExists_AnySentId(user_id) == user_id # None

\* User.objects.get(id=user_id) finds a row.
UserExists(user_id) == user_id \in Users

\* project.members.add(user)
MembersAdd(members, user_id) == members \cup {user_id}

\* project.members.remove(user)
MembersRemove(members, user_id) == members \ {user_id}

\* POST /projects/{p}/add_member
AddMember(user, p, user_id) ==
    /\ creating.pc = "idle"
    /\ LET st == ProjectObject("POST", p, user) IN
       IF st # "OK" THEN Reply("project.add_member", user, p, st)
       ELSE IF ~UserExists(user_id)
       THEN Reply("project.add_member", user, p, "NotFound")
       ELSE /\ projects' = [projects EXCEPT
                               ![p].members = MembersAdd(@, user_id)]
            /\ http' = Exchange("project.add_member", user, p, "OK")
            /\ UNCHANGED <<sessions, eventRows, boardRows, creating, ambient>>

\* POST /projects/{p}/remove_member
RemoveMember(user, p, user_id) ==
    /\ creating.pc = "idle"
    /\ LET st == ProjectObject("POST", p, user) IN
       IF st # "OK" THEN Reply("project.remove_member", user, p, st)
       ELSE IF ~UserExists(user_id)
       THEN Reply("project.remove_member", user, p, "NotFound")
       ELSE /\ projects' = [projects EXCEPT
                               ![p].members = MembersRemove(@, user_id)]
            /\ http' = Exchange("project.remove_member", user, p, "OK")
            /\ UNCHANGED <<sessions, eventRows, boardRows, creating, ambient>>

\* ------------------------------------------------ membership, concurrently
\* Requests served by different workers at once: each handler does its
\* database statements one after the other, and the statements of different
\* handlers interleave.  A worker serves one request.
CallIds == 1 .. MaxCalls
MemberOps == {"add_member", "remove_member"}

\* project = self.get_object(): the worker now holds the Project it read.
MemberGetObject(op, user, p, user_id) ==
    /\ DOMAIN calls # CallIds
    /\ LET c == NewId(calls, CallIds)
           st == ProjectObject("POST", p, user)
       IN calls' = Put(calls, c,
                       [op |-> op, user |-> user, pk |-> p, user_id |-> user_id,
                        instance |-> IF st = "OK" THEN projects[p] ELSE None,
                        pc |-> IF st = "OK" THEN "lookup" ELSE "done",
                        status |-> IF st = "OK" THEN "Pending" ELSE st])
    /\ UNCHANGED <<database, creating, http, now>>

\* user = User.objects.get(id=user_id); User.DoesNotExist answers 404.
MemberLookUp(c) ==
    /\ c \in DOMAIN calls /\ calls[c].pc = "lookup"
    /\ calls' = [calls EXCEPT ![c] =
                    IF UserExists(calls[c].user_id)
                    THEN [@ EXCEPT !.pc = "write"]
                    ELSE [@ EXCEPT !.pc = "done", !.status = "NotFound"]]
    /\ UNCHANGED <<database, creating, http, now>>

\* A handler that writes back the member list of the Project it holds.
MemberWrite_WholeList(c) ==
    /\ c \in DOMAIN calls /\ calls[c].pc = "write"
    /\ LET p == calls[c].pk
           held == calls[c].instance.members
       IN projects' = [projects EXCEPT ![p].members =
                          IF calls[c].op = "add_member"
                          THEN MembersAdd(held, calls[c].user_id)
                          ELSE MembersRemove(held, calls[c].user_id)]
    /\ calls' = [calls EXCEPT ![c].pc = "done", ![c].status = "OK"]
    /\ UNCHANGED <<sessions, eventRows, boardRows, creating, http, now>>

\* project.members.add(user) / project.members.remove(user): one INSERT that
\* ignores a conflicting row, or one DELETE, on the membership table; then
\* the 200 response.
MemberWrite(c) ==
    /\ c \in DOMAIN calls /\ calls[c].pc = "write"
    /\ LET p == calls[c].pk IN
       projects' = [projects EXCEPT ![p].members =
                       IF calls[c].op = "add_member"
                       THEN MembersAdd(@, calls[c].user_id)
                       ELSE MembersRemove(@, calls[c].user_id)]
    /\ calls' = [calls EXCEPT ![c].pc = "done", ![c].status = "OK"]
    /\ UNCHANGED <<sessions, eventRows, boardRows, creating, http, now>>

\* ------------------------------------------------------------------- stats
\* QuerySet.count()
Count(rows) == Cardinality(rows)

\* SUM(field) over the rows.
RECURSIVE SumOf(_, _, _)
SumOf(table, rows, field) ==
    IF rows = {} THEN 0
    ELSE LET i == CHOOSE j \in rows : TRUE
         IN table[i][field] + SumOf(table, rows \ {i}, field)

\* A ratio num/den; den = 0 stands for SQL NULL (Python None).
NullAvg == [num |-> 0, den |-> 0]

\* The rows whose nullable column holds a value.
NotNull(table, rows, field) == {i \in rows : table[i][field] # None}

\* aggregate(Avg(field)): SQL AVG is the mean of the values that are not
\* NULL, and NULL when there is none.  Of the averaged columns only
\* Feedback.rating is nullable (its NULL is None); tokens and latency are not.
Avg(table, rows, field) ==
    LET valued == IF field = "rating" THEN NotNull(table, rows, field) ELSE rows
    IN IF valued = {} THEN NullAvg
       ELSE [num |-> SumOf(table, valued, field), den |-> Count(valued)]

\* Python's  x or 0 : None and 0.0 both give 0.
OrZero(avg) == IF avg.den = 0 \/ avg.num = 0 THEN [num |-> 0, den |-> 1] ELSE avg

\* filter(..timestamp__gte=start_date)
InRange(stamp, start_date) == stamp >= start_date

\* The response body of stats for project p and the days parameter.
StatsBody(p, days) ==
    LET start_date == now - days
        evs == {e \in DOMAIN events :
                   events[e].project = p /\ InRange(events[e].timestamp, start_date)}
        ups == {x \in DOMAIN prompts :
                   /\ events[prompts[x].event].project = p
                   /\ InRange(events[prompts[x].event].timestamp, start_date)}
        rsp == {r \in DOMAIN responses :
                   /\ events[responses[r].event].project = p
                   /\ InRange(events[responses[r].event].timestamp, start_date)}
        fbs == {f \in DOMAIN feedbacks :
                   /\ events[feedbacks[f].event].project = p
                   /\ InRange(events[feedbacks[f].event].timestamp, start_date)}
        ses == {s \in DOMAIN sessions :
                   sessions[s].project = p /\ InRange(sessions[s].start_time, start_date)}
    IN [total_events |-> Count(evs),
        event_types |-> [t \in {events[e].event_type : e \in evs} |->
                            Count({e \in evs : events[e].event_type = t})],
        total_prompts |-> Count(ups),
        avg_prompt_tokens |-> OrZero(Avg(prompts, ups, "tokens")),
        total_responses |-> Count(rsp),
        avg_response_tokens |-> OrZero(Avg(responses, rsp, "tokens")),
        avg_latency |-> OrZero(Avg(responses, rsp, "latency")),
        total_feedback |-> Count(fbs),
        avg_rating |-> OrZero(Avg(feedbacks, fbs, "rating")),
        total_sessions |-> Count(ses)]

\* GET /projects/{p}/stats?days=..
Stats(user, p, days) ==
    /\ creating.pc = "idle"
    /\ LET st == ProjectObject("GET", p, user) IN
       IF st # "OK" THEN Reply("project.stats", user, p, st)
       ELSE /\ http' = [op |-> "project.stats", user |-> user, pk |-> p,
                        status |-> "OK", days |-> days, body |-> StatsBody(p, days)]
            /\ UNCHANGED <<database, creating, ambient>>

\* Time passes.
Tick ==
    /\ now < MaxTime
    /\ now' = now + 1
    /\ UNCHANGED <<database, creating, http, calls>>

\* ---------------------------------------------------------------- sessions
\* PrimaryKeyRelatedField(queryset=Model.objects.all()): the key names a row.
ValidKey(table, pk) == pk \in DOMAIN table
ValidNullableKey(table, pk) == pk = None \/ pk \in DOMAIN table

\* A field of the validated data, or the model field's default when the
\* payload leaves it out.
FieldOr(data, name, default) ==
    IF name \in DOMAIN data THEN data[name] ELSE default

\* ModelSerializer.update: every validated field is set on the instance, the
\* others stay.
Updated(row, data) ==
    [f \in DOMAIN row |-> IF f \in DOMAIN data THEN data[f] ELSE row[f]]

\* Session(**validated_data): start_time defaults to timezone.now, end_time
\* to null.
SessionRow(data) ==
    [project |-> data.project, user_id |-> data.user_id,
     start_time |-> FieldOr(data, "start_time", now),
     end_time |-> FieldOr(data, "end_time", None)]

\* POST /sessions/; data = [project, user_id] and optionally start_time,
\* end_time
CreateSession(user, data) ==
    /\ creating.pc = "idle"
    /\ DOMAIN sessions # SessionIds
    /\ LET s == NewId(sessions, SessionIds) IN
       IF ~ValidKey(projects, data.project)
       THEN Reply("session.create", user, None, "BadRequest")
       ELSE /\ sessions' = Put(sessions, s, SessionRow(data))
            /\ http' = Exchange("session.create", user, s, "Created")
            /\ UNCHANGED <<projects, eventRows, boardRows, creating, ambient>>

\* PUT /sessions/{s}/; data = [project, user_id]
UpdateSession(user, s, data) ==
    /\ creating.pc = "idle"
    /\ LET st == SessionObject("PUT", s, user) IN
       IF st # "OK" THEN Reply("session.update", user, s, st)
       ELSE IF ~ValidKey(projects, data.project)
       THEN Reply("session.update", user, s, "BadRequest")
       ELSE /\ sessions' = [sessions EXCEPT ![s] = Updated(@, data)]
            /\ http' = Exchange("session.update", user, s, "OK")
            /\ UNCHANGED <<projects, eventRows, boardRows, creating, ambient>>

\* DELETE /sessions/{s}/
DestroySession(user, s) ==
    /\ creating.pc = "idle"
    /\ LET st == SessionObject("DELETE", s, user) IN
       IF st # "OK" THEN Reply("session.destroy", user, s, st)
       ELSE /\ Delete(Cascade({}, {s}, {}, {}, {}))
            /\ http' = Exchange("session.destroy", user, s, "NoContent")
            /\ UNCHANGED <<creating, ambient>>

\* timedelta.total_seconds() of a difference in days.
SecondsPerDay == 86400

\* Session.duration: a datetime is always true, None is not.
duration(s) ==
    IF sessions[s].end_time # None
    THEN (sessions[s].end_time - sessions[s].start_time) * SecondsPerDay
    ELSE None

\* POST /sessions/{s}/end_session
EndSession(user, s) ==
    /\ creating.pc = "idle"
    /\ LET st == SessionObject("POST", s, user) IN
       IF st # "OK" THEN Reply("session.end_session", user, s, st)
       ELSE /\ sessions' = [sessions EXCEPT ![s].end_time = now]
            /\ http' = Exchange("session.end_session", user, s, "OK")
            /\ UNCHANGED <<projects, eventRows, boardRows, creating, ambient>>

\* GET /sessions/{s}/events: the status and the Events returned.
SessionEvents(user, s) ==
    LET st == SessionObject("GET", s, user) IN
    [status |-> st,
     events |-> IF st = "OK"
                THEN {e \in DOMAIN events : events[e].session = s}
                ELSE {}]

\* ------------------------------------------------------------------ events
\* A nested sub-document of the payload: absent, or a dict of its fields.
Absent == [given |-> FALSE]
\* Python truth of validated_data.pop(name, None): None and {} are false.
Truthy(doc) == doc.given /\ DOMAIN doc # {"given"}

EventCreate_valid(data) ==
    /\ ValidKey(projects, data.project)
    /\ ValidNullableKey(sessions, data.session)

\* POST /events/ up to  event = Event.objects.create(**validated_data)
CreateEvent(user, data) ==
    /\ creating.pc = "idle"
    /\ DOMAIN events # EventIds
    /\ LET e == NewId(events, EventIds) IN
       IF ~EventCreate_valid(data)
       THEN Reply("event.create", user, None, "BadRequest")
       ELSE /\ events' = Put(events, e,
                             [project |-> data.project,
                              session |-> data.session,
                              event_type |-> data.event_type,
                              timestamp |-> FieldOr(data, "timestamp", now)])
            /\ creating' = [pc |-> "user_prompt", user |-> user,
                            event |-> e, data |-> data]
            /\ http' = Exchange("event.create", user, e, "Pending")
            /\ UNCHANGED <<projects, sessions, prompts, responses, feedbacks,
                           boardRows, ambient>>

\* if user_prompt_data: UserPrompt.objects.create(event=event, ...)
InsertUserPrompt ==
    /\ creating.pc = "user_prompt"
    /\ prompts' = IF Truthy(creating.data.user_prompt)
                  THEN Put(prompts, NewId(prompts, EventIds),
                           [event |-> creating.event,
                            model_name |-> creating.data.user_prompt.model_name,
                            tokens |-> FieldOr(creating.data.user_prompt,
                                               "tokens", 0)])
                  ELSE prompts
    /\ creating' = [creating EXCEPT !.pc = "ai_response"]
    /\ UNCHANGED <<projects, sessions, events, responses, feedbacks,
                   boardRows, http, ambient>>

\* A creation that never links the AIResponse to the prompt.
CreatedPrompt_Unlinked(e, data) == None

\* prompt = event.user_prompt if user_prompt_data else None
CreatedPrompt(e, data) ==
    IF Truthy(data.user_prompt) THEN EventUserPrompt(e) ELSE None

\* if ai_response_data: AIResponse.objects.create(event=event, prompt=prompt, ...)
InsertAIResponse ==
    /\ creating.pc = "ai_response"
    /\ responses' = IF Truthy(creating.data.ai_response)
                    THEN Put(responses, NewId(responses, EventIds),
                             [event |-> creating.event,
                              prompt |-> CreatedPrompt(creating.event, creating.data),
                              model_name |-> creating.data.ai_response.model_name,
                              tokens |-> FieldOr(creating.data.ai_response,
                                                 "tokens", 0),
                              latency |-> FieldOr(creating.data.ai_response,
                                                  "latency", 0)])
                    ELSE responses
    /\ creating' = [creating EXCEPT !.pc = "feedback"]
    /\ UNCHANGED <<projects, sessions, events, prompts, feedbacks,
                   boardRows, http, ambient>>

\* response = event.ai_response if ai_response_data else None
CreatedResponse(e, data) ==
    IF Truthy(data.ai_response) THEN EventAIResponse(e) ELSE None

\* Feedback.response is a ForeignKey without null=True: NOT NULL.
FeedbackResponseNullable == FALSE

\* if feedback_data: Feedback.objects.create(event=event, response=response, ...)
\* and the end of the request.
InsertFeedback ==
    /\ creating.pc = "feedback"
    /\ LET e == creating.event
           response == CreatedResponse(e, creating.data)
           rating == IF "rating" \in DOMAIN creating.data.feedback
                     THEN creating.data.feedback.rating ELSE None
       IN IF ~Truthy(creating.data.feedback)
          THEN /\ feedbacks' = feedbacks
               /\ http' = [http EXCEPT !.status = "Created"]
          ELSE IF response = None /\ ~FeedbackResponseNullable
          THEN \* IntegrityError; the earlier inserts are already committed
               /\ feedbacks' = feedbacks
               /\ http' = [http EXCEPT !.status = "ServerError"]
          ELSE /\ feedbacks' = Put(feedbacks, NewId(feedbacks, EventIds),
                                   [event |-> e, response |-> response,
                                    rating |-> rating])
               /\ http' = [http EXCEPT !.status = "Created"]
    /\ creating' = Idle
    /\ UNCHANGED <<projects, sessions, events, prompts, responses, boardRows,
                   ambient>>

\* PUT /events/{e}/ (EventSerializer); data = [project, session, event_type]
UpdateEvent(user, e, data) ==
    /\ creating.pc = "idle"
    /\ LET st == EventObject("PUT", e, user) IN
       IF st # "OK" THEN Reply("event.update", user, e, st)
       ELSE IF ~EventCreate_valid(data)
       THEN Reply("event.update", user, e, "BadRequest")
       ELSE /\ events' = [events EXCEPT ![e] = Updated(@, data)]
            /\ http' = Exchange("event.update", user, e, "OK")
            /\ UNCHANGED <<projects, sessions, prompts, responses, feedbacks,
                           boardRows, creating, ambient>>

\* DELETE /events/{e}/
DestroyEvent(user, e) ==
    /\ creating.pc = "idle"
    /\ LET st == EventObject("DELETE", e, user) IN
       IF st # "OK" THEN Reply("event.destroy", user, e, st)
       ELSE /\ Delete(Cascade({}, {}, {e}, {}, {}))
            /\ http' = Exchange("event.destroy", user, e, "NoContent")
            /\ UNCHANGED <<creating, ambient>>

\* ---------------------------------------------------------------- feedback
\* FeedbackSerializer: event is one-to-one (unique), response is required.
Feedback_valid(data, self) ==
    /\ ValidKey(events, data.event)
    /\ \A f \in DOMAIN feedbacks \ {self} : feedbacks[f].event # data.event
    /\ ValidKey(responses, data.response)

\* POST /feedback/; data = [event, response, rating]
CreateFeedback(user, data) ==
    /\ creating.pc = "idle"
    /\ DOMAIN feedbacks # EventIds
    /\ IF ~Feedback_valid(data, None)
       THEN Reply("feedback.create", user, None, "BadRequest")
       ELSE LET f == NewId(feedbacks, EventIds) IN
            /\ feedbacks' = Put(feedbacks, f, data)
            /\ http' = Exchange("feedback.create", user, f, "Created")
            /\ UNCHANGED <<projects, sessions, events, prompts, responses,
                           boardRows, creating, ambient>>

\* PUT /feedback/{f}/
UpdateFeedback(user, f, data) ==
    /\ creating.pc = "idle"
    /\ LET st == FeedbackObject("PUT", f, user) IN
       IF st # "OK" THEN Reply("feedback.update", user, f, st)
       ELSE IF ~Feedback_valid(data, f)
       THEN Reply("feedback.update", user, f, "BadRequest")
       ELSE /\ feedbacks' = [feedbacks EXCEPT ![f] = data]
            /\ http' = Exchange("feedback.update", user, f, "OK")
            /\ UNCHANGED <<projects, sessions, events, prompts, responses,
                           boardRows, creating, ambient>>

\* DELETE /feedback/{f}/
DestroyFeedback(user, f) ==
    /\ creating.pc = "idle"
    /\ LET st == FeedbackObject("DELETE", f, user) IN
       IF st # "OK" THEN Reply("feedback.destroy", user, f, st)
       ELSE /\ feedbacks' = Drop(feedbacks, {f})
            /\ http' = Exchange("feedback.destroy", user, f, "NoContent")
            /\ UNCHANGED <<projects, sessions, events, prompts, responses,
                           boardRows, creating, ambient>>

\* -------------------------------------------------------------------- tags
\* unique_together = ('project', 'name')
TagTaken(project, name, self) ==
    \E t \in DOMAIN tags \ {self} :
        tags[t].project = project /\ tags[t].name = name

\* POST /tags/: TagSerializer has no project field, so the insert violates
\* NOT NULL on project_id.
CreateTag(user, name) ==
    /\ creating.pc = "idle"
    /\ Reply("tag.create", user, None, "ServerError")

\* TagAdmin (admin.py): a staff user saves a Tag with its project.
AdminAddTag(project, name) ==
    /\ creating.pc = "idle"
    /\ DOMAIN tags # TagIds
    /\ ValidKey(projects, project)
    /\ ~TagTaken(project, name, None)
    /\ tags' = Put(tags, NewId(tags, TagIds), [project |-> project, name |-> name])
    /\ http' = Exchange("admin.tag.add", None, None, "OK")
    /\ UNCHANGED <<projects, sessions, eventRows, dashboards, widgets, creating, ambient>>

\* PUT /tags/{t}/
UpdateTag(user, t, name) ==
    /\ creating.pc = "idle"
    /\ LET st == TagObject("PUT", t, user) IN
       IF st # "OK" THEN Reply("tag.update", user, t, st)
       ELSE IF TagTaken(tags[t].project, name, t)
       THEN Reply("tag.update", user, t, "ServerError")
       ELSE /\ tags' = [tags EXCEPT ![t].name = name]
            /\ http' = Exchange("tag.update", user, t, "OK")
            /\ UNCHANGED <<projects, sessions, eventRows, dashboards, widgets,
                           creating, ambient>>

\* DELETE /tags/{t}/
DestroyTag(user, t) ==
    /\ creating.pc = "idle"
    /\ LET st == TagObject("DELETE", t, user) IN
       IF st # "OK" THEN Reply("tag.destroy", user, t, st)
       ELSE /\ tags' = Drop(tags, {t})
            /\ http' = Exchange("tag.destroy", user, t, "NoContent")
            /\ UNCHANGED <<projects, sessions, eventRows, dashboards, widgets,
                           creating, ambient>>

\* ------------------------------------------------------ dashboards, widgets
\* POST /dashboards/
CreateDashboard(user, project) ==
    /\ creating.pc = "idle"
    /\ DOMAIN dashboards # DashboardIds
    /\ IF ~ValidKey(projects, project)
       THEN Reply("dashboard.create", user, None, "BadRequest")
       ELSE LET d == NewId(dashboards, DashboardIds) IN
            /\ dashboards' = Put(dashboards, d, [project |-> project])
            /\ http' = Exchange("dashboard.create", user, d, "Created")
            /\ UNCHANGED <<projects, sessions, eventRows, tags, widgets, creating, ambient>>

\* PUT /dashboards/{d}/
UpdateDashboard(user, d, project) ==
    /\ creating.pc = "idle"
    /\ LET st == DashboardObject("PUT", d, user) IN
       IF st # "OK" THEN Reply("dashboard.update", user, d, st)
       ELSE IF ~ValidKey(projects, project)
       THEN Reply("dashboard.update", user, d, "BadRequest")
       ELSE /\ dashboards' = [dashboards EXCEPT ![d].project = project]
            /\ http' = Exchange("dashboard.update", user, d, "OK")
            /\ UNCHANGED <<projects, sessions, eventRows, tags, widgets, creating, ambient>>

\* DELETE /dashboards/{d}/
DestroyDashboard(user, d) ==
    /\ creating.pc = "idle"
    /\ LET st == DashboardObject("DELETE", d, user) IN
       IF st # "OK" THEN Reply("dashboard.destroy", user, d, st)
       ELSE /\ Delete(Cascade({}, {}, {}, {}, {d}))
            /\ http' = Exchange("dashboard.destroy", user, d, "NoContent")
            /\ UNCHANGED <<creating, ambient>>

\* POST /widgets/
CreateWidget(user, dashboard) ==
    /\ creating.pc = "idle"
    /\ DOMAIN widgets # WidgetIds
    /\ IF ~ValidKey(dashboards, dashboard)
       THEN Reply("widget.create", user, None, "BadRequest")
       ELSE LET w == NewId(widgets, WidgetIds) IN
            /\ widgets' = Put(widgets, w, [dashboard |-> dashboard])
            /\ http' = Exchange("widget.create", user, w, "Created")
            /\ UNCHANGED <<projects, sessions, eventRows, tags, dashboards,
                           creating, ambient>>

\* PUT /widgets/{w}/
UpdateWidget(user, w, dashboard) ==
    /\ creating.pc = "idle"
    /\ LET st == WidgetObject("PUT", w, user) IN
       IF st # "OK" THEN Reply("widget.update", user, w, st)
       ELSE IF ~ValidKey(dashboards, dashboard)
       THEN Reply("widget.update", user, w, "BadRequest")
       ELSE /\ widgets' = [widgets EXCEPT ![w].dashboard = dashboard]
            /\ http' = Exchange("widget.update", user, w, "OK")
            /\ UNCHANGED <<projects, sessions, eventRows, tags, dashboards,
                           creating, ambient>>

\* DELETE /widgets/{w}/
DestroyWidget(user, w) ==
    /\ creating.pc = "idle"
    /\ LET st == WidgetObject("DELETE", w, user) IN
       IF st # "OK" THEN Reply("widget.destroy", user, w, st)
       ELSE /\ widgets' = Drop(widgets, {w})
            /\ http' = Exchange("widget.destroy", user, w, "NoContent")
            /\ UNCHANGED <<projects, sessions, eventRows, tags, dashboards,
                           creating, ambient>>

\* ------------------------------------------------------------------- lists
\* GET /<collection>/?...: ListModelMixin.list returns the view's queryset.
Listing(op, user, q, qs) ==
    /\ creating.pc = "idle"
    /\ http' = [op |-> op, user |-> user, pk |-> None, status |-> "OK",
                query |-> q, rows |-> qs]
    /\ UNCHANGED <<database, creating, ambient>>

ListProjects(user) == Listing("project.list", user, NoQuery, Project_get_queryset(user))
ListSessions(user, q) == Listing("session.list", user, q, Session_get_queryset(user, q))
ListEvents(user, q) == Listing("event.list", user, q, Event_get_queryset(user, q))
ListPrompts(user, q) == Listing("prompt.list", user, q, UserPrompt_get_queryset(user, q))
ListResponses(user, q) == Listing("response.list", user, q, AIResponse_get_queryset(user, q))
ListFeedback(user, q) == Listing("feedback.list", user, q, Feedback_get_queryset(user, q))
ListTags(user, q) == Listing("tag.list", user, q, Tag_get_queryset(user, q))
ListDashboards(user, q) == Listing("dashboard.list", user, q, Dashboard_get_queryset(user, q))
ListWidgets(user, q) == Listing("widget.list", user, q, Widget_get_queryset(user, q))

\* ------------------------------------------------------------ request inputs
SessionData == [project : ProjectIds, user_id : ExternalIds]
EventData == [project : ProjectIds, session : SessionIds \cup {None},
              event_type : EventTypes]
PromptDocs == {Absent} \cup [given : {TRUE}, model_name : ModelNames]
ResponseDocs == {Absent} \cup [given : {TRUE}, model_name : ModelNames]
FeedbackDocs == {Absent, [given |-> TRUE]} \cup [given : {TRUE}, rating : Ratings]
EventCreateData == [project : ProjectIds, session : SessionIds \cup {None},
                    event_type : EventTypes, user_prompt : PromptDocs,
                    ai_response : ResponseDocs, feedback : FeedbackDocs]
FeedbackData == [event : EventIds, response : EventIds, rating : Ratings]

\* Query parameters: each filter absent, matching some row or matching none.
ProjectParams == ProjectIds \cup {None}
SessionQueries == {[NoQuery EXCEPT !.project = p, !.user_id = x] :
                      p \in ProjectParams, x \in ExternalIds \cup {""}}
EventQueries == {[NoQuery EXCEPT !.project = p, !.session = s, !.event_type = t] :
                    p \in ProjectParams, s \in SessionIds \cup {None},
                    t \in EventTypes \cup {""}}
ModelQueries == {[NoQuery EXCEPT !.project = p, !.model_name = m] :
                    p \in ProjectParams, m \in ModelNames \cup {""}}
FeedbackQueries == {[NoQuery EXCEPT !.project = p, !.rating = r] :
                       p \in ProjectParams, r \in Ratings}
ProjectQueries == {[NoQuery EXCEPT !.project = p] : p \in ProjectParams}
WidgetQueries == {[NoQuery EXCEPT !.dashboard = d] :
                     d \in DashboardIds \cup {None}}

\* ----------------------------------------------------------- specification
Init ==
    /\ projects = << >>
    /\ sessions = << >>
    /\ events = << >>
    /\ prompts = << >>
    /\ responses = << >>
    /\ feedbacks = << >>
    /\ tags = << >>
    /\ dashboards = << >>
    /\ widgets = << >>
    /\ creating = Idle
    /\ http = Exchange("none", None, None, "none")
    /\ now = 1
    /\ calls = << >>

ProjectRequest ==
    \/ \E u \in Users, d \in Descriptions : CreateProject(u, d)
    \/ \E u \in Users, p \in ProjectIds, d \in Descriptions : UpdateProject(u, p, d)
    \/ \E u \in Users, p \in ProjectIds : DestroyProject(u, p)
    \/ \E u \in Users, p \in ProjectIds, i \in UserIds : AddMember(u, p, i)
    \/ \E u \in Users, p \in ProjectIds, i \in UserIds : RemoveMember(u, p, i)

SessionRequest ==
    \/ \E u \in Users, d \in SessionData : CreateSession(u, d)
    \/ \E u \in Users, s \in SessionIds, d \in SessionData : UpdateSession(u, s, d)
    \/ \E u \in Users, s \in SessionIds : DestroySession(u, s)

EventRequest ==
    \/ \E u \in Users, d \in EventCreateData : CreateEvent(u, d)
    \/ InsertUserPrompt
    \/ InsertAIResponse
    \/ InsertFeedback
    \/ \E u \in Users, e \in EventIds, d \in EventData : UpdateEvent(u, e, d)
    \/ \E u \in Users, e \in EventIds : DestroyEvent(u, e)

FeedbackRequest ==
    \/ \E u \in Users, d \in FeedbackData : CreateFeedback(u, d)
    \/ \E u \in Users, f \in EventIds, d \in FeedbackData : UpdateFeedback(u, f, d)
    \/ \E u \in Users, f \in EventIds : DestroyFeedback(u, f)

BoardRequest ==
    \/ \E u \in Users, n \in TagNames : CreateTag(u, n)
    \/ \E p \in ProjectIds, n \in TagNames : AdminAddTag(p, n)
    \/ \E u \in Users, t \in TagIds, n \in TagNames : UpdateTag(u, t, n)
    \/ \E u \in Users, t \in TagIds : DestroyTag(u, t)
    \/ \E u \in Users, p \in ProjectIds : CreateDashboard(u, p)
    \/ \E u \in Users, d \in DashboardIds, p \in ProjectIds : UpdateDashboard(u, d, p)
    \/ \E u \in Users, d \in DashboardIds : DestroyDashboard(u, d)
    \/ \E u \in Users, d \in DashboardIds : CreateWidget(u, d)
    \/ \E u \in Users, w \in WidgetIds, d \in DashboardIds : UpdateWidget(u, w, d)
    \/ \E u \in Users, w \in WidgetIds : DestroyWidget(u, w)

ListRequest ==
    \/ \E u \in Users : ListProjects(u)
    \/ \E u \in Users, q \in SessionQueries : ListSessions(u, q)
    \/ \E u \in Users, q \in EventQueries : ListEvents(u, q)
    \/ \E u \in Users, q \in ModelQueries : ListPrompts(u, q)
    \/ \E u \in Users, q \in ModelQueries : ListResponses(u, q)
    \/ \E u \in Users, q \in FeedbackQueries : ListFeedback(u, q)
    \/ \E u \in Users, q \in ProjectQueries : ListTags(u, q)
    \/ \E u \in Users, q \in ProjectQueries : ListDashboards(u, q)
    \/ \E u \in Users, q \in WidgetQueries : ListWidgets(u, q)

Next ==
    \/ ProjectRequest
    \/ SessionRequest
    \/ EventRequest
    \/ FeedbackRequest
    \/ BoardRequest
    \/ ListRequest

\* Every endpoint, from the empty database.
Spec == Init /\ [][Next]_vars

\* The project endpoints alone: no other endpoint writes a Project row or a
\* membership.
SpecProject == Init /\ [][ProjectRequest]_vars

\* The membership endpoints alone, on projects any identity may create.
MembersNext ==
    \/ \E u \in Users : CreateProject(u, "d0")
    \/ \E u \in Users, p \in ProjectIds, i \in UserIds : AddMember(u, p, i)
    \/ \E u \in Users, p \in ProjectIds, i \in UserIds : RemoveMember(u, p, i)

SpecMembers == Init /\ [][MembersNext]_vars

\* Membership requests served concurrently, all on the same existing project
\* and each about a known or an unknown user.
SameProject == {p \in DOMAIN projects : \A c \in DOMAIN calls : calls[c].pk = p}

ConcurrentNext ==
    \/ \E u \in Users : CreateProject(u, "d0")
    \/ \E op \in MemberOps, u \in Users, p \in SameProject,
          i \in Users \cup {UnknownUser} : MemberGetObject(op, u, p, i)
    \/ \E c \in CallIds : MemberLookUp(c)
    \/ \E c \in CallIds : MemberWrite(c)

SpecConcurrent == Init /\ [][ConcurrentNext]_vars

\* The stats endpoint over a populated database.  The request comes at
\* instant 2; timestamps lie before, at or after it (Event.timestamp and
\* Session.start_time are writable fields).  Project 1 has a member, project 2
\* has none.  An Event carries one of the shapes of dependent rows the
\* endpoints can create; rows are interchangeable, so the Events are drawn in
\* one order only.
Times == {1, 2, 3}
Days == {0, 1}
SampleIds == 1 .. MaxSamples
Shapes == <<[prompt |-> FALSE, response |-> FALSE, feedback |-> FALSE, rating |-> None],
            [prompt |-> TRUE, response |-> FALSE, feedback |-> FALSE, rating |-> None],
            [prompt |-> TRUE, response |-> TRUE, feedback |-> FALSE, rating |-> None],
            [prompt |-> FALSE, response |-> TRUE, feedback |-> TRUE, rating |-> None],
            [prompt |-> FALSE, response |-> TRUE, feedback |-> TRUE, rating |-> 1],
            [prompt |-> FALSE, response |-> TRUE, feedback |-> TRUE, rating |-> 5]>>

InitStats ==
    /\ now = 2
    /\ projects = [p \in ProjectIds |->
                     [owner |-> p, members |-> IF p = 1 THEN {2} ELSE {},
                      description |-> "d0"]]
    /\ events \in [SampleIds -> [project : ProjectIds, session : {None},
                                 event_type : {"other"}, timestamp : Times]]
    /\ \E shape \in [SampleIds -> 1 .. Len(Shapes)] :
          /\ \A i, j \in SampleIds :
                i < j =>
                   \/ events[i].project < events[j].project
                   \/ /\ events[i].project = events[j].project
                      /\ events[i].timestamp < events[j].timestamp
                   \/ /\ events[i].project = events[j].project
                      /\ events[i].timestamp = events[j].timestamp
                      /\ shape[i] <= shape[j]
          /\ prompts = [i \in {j \in SampleIds : Shapes[shape[j]].prompt} |->
                          [event |-> i, model_name |-> "m1", tokens |-> 2]]
          /\ responses = [i \in {j \in SampleIds : Shapes[shape[j]].response} |->
                            [event |-> i,
                             prompt |-> IF Shapes[shape[i]].prompt THEN i ELSE None,
                             model_name |-> "m1", tokens |-> 4, latency |-> 1]]
          /\ feedbacks = [i \in {j \in SampleIds : Shapes[shape[j]].feedback} |->
                            [event |-> i, response |-> i,
                             rating |-> Shapes[shape[i]].rating]]
    /\ sessions \in [SessionIds -> [project : {1}, user_id : {"x"},
                                    start_time : Times, end_time : {None}]]
    /\ tags = << >>
    /\ dashboards = << >>
    /\ widgets = << >>
    /\ creating = Idle
    /\ http = Exchange("none", None, None, "none")
    /\ calls = << >>

\* Stats requests against each such database.
StatsNext == \E u \in Users, p \in ProjectIds, days \in Days : Stats(u, p, days)

\* Events stamped by the server or by the caller, and stats as time passes.
StampedEvents == [project : ProjectIds, session : {None}, event_type : {"other"},
                  user_prompt : {Absent}, ai_response : {Absent},
                  feedback : {Absent}]
                 \cup [project : ProjectIds, session : {None},
                       event_type : {"other"}, timestamp : 1 .. MaxTime,
                       user_prompt : {Absent}, ai_response : {Absent},
                       feedback : {Absent}]

WindowNext ==
    \/ Tick
    \/ \E u \in Users : CreateProject(u, "d0")
    \/ \E u \in Users, d \in StampedEvents : CreateEvent(u, d)
    \/ InsertUserPrompt
    \/ InsertAIResponse
    \/ InsertFeedback
    \/ \E u \in Users, p \in ProjectIds, days \in Days : Stats(u, p, days)

SpecWindow == Init /\ [][WindowNext]_vars

\* Sessions as time passes: created and updated with or without the writable
\* start_time and end_time fields, and ended.
TimedSessions ==
    LET plain == [project : ProjectIds, user_id : {"x"}]
    IN plain
       \cup {[project |-> d.project, user_id |-> d.user_id, start_time |-> t] :
                d \in plain, t \in 1 .. MaxTime}
       \cup {[project |-> d.project, user_id |-> d.user_id, end_time |-> t] :
                d \in plain, t \in 1 .. MaxTime}

SessionNext ==
    \/ Tick
    \/ \E u \in Users : CreateProject(u, "d0")
    \/ \E u \in Users, d \in TimedSessions : CreateSession(u, d)
    \/ \E u \in Users, s \in SessionIds, d \in TimedSessions : UpdateSession(u, s, d)
    \/ \E u \in Users, s \in SessionIds : EndSession(u, s)

SpecSession == Init /\ [][SessionNext]_vars

SpecStats == InitStats /\ [][StatsNext]_vars

\* Event creation in shared projects: projects with members, sessions, and
\* the nested creation of Events by any caller.
BundleDocs == {Absent, [given |-> TRUE, model_name |-> "m1"]}
BundleData == [project : ProjectIds, session : SessionIds \cup {None},
               event_type : {"other"}, user_prompt : BundleDocs,
               ai_response : BundleDocs,
               feedback : {Absent, [given |-> TRUE], [given |-> TRUE, rating |-> 5]}]

EventNext ==
    \/ \E u \in Users : CreateProject(u, "d0")
    \/ \E u \in Users, p \in ProjectIds, i \in Users : AddMember(u, p, i)
    \/ \E u \in Users, p \in ProjectIds :
          CreateSession(u, [project |-> p, user_id |-> "x"])
    \/ \E u \in Users, d \in BundleData : CreateEvent(u, d)
    \/ InsertUserPrompt
    \/ InsertAIResponse
    \/ InsertFeedback
    \/ \E u \in Users, e \in EventIds : DestroyEvent(u, e)

SpecEvent == Init /\ [][EventNext]_vars

\* The events endpoint alone, over projects that exist.
BundleNext ==
    \/ \E u \in Users : CreateProject(u, "d0")
    \/ \E u \in Users, d \in BundleData : CreateEvent(u, d)
    \/ InsertUserPrompt
    \/ InsertAIResponse
    \/ InsertFeedback
    \/ \E u \in Users, e \in EventIds : DestroyEvent(u, e)

SpecBundle == Init /\ [][BundleNext]_vars

\* Projects filled with rows of every kind, and deleted.
CascadeNext ==
    \/ \E u \in Users : CreateProject(u, "d0")
    \/ \E u \in Users, p \in ProjectIds :
          CreateSession(u, [project |-> p, user_id |-> "x"])
    \/ \E u \in Users, d \in BundleData : CreateEvent(u, d)
    \/ InsertUserPrompt
    \/ InsertAIResponse
    \/ InsertFeedback
    \/ \E p \in ProjectIds : AdminAddTag(p, "t1")
    \/ \E u \in Users, p \in ProjectIds : CreateDashboard(u, p)
    \/ \E u \in Users, d \in DashboardIds : CreateWidget(u, d)
    \/ \E u \in Users, p \in ProjectIds : DestroyProject(u, p)

SpecCascade == Init /\ [][CascadeNext]_vars

\* The list endpoints over a populated database.  Each list reads one table
\* and the projects its rows resolve to, so the rows with the same index are
\* placed together: row i of every table resolves to project place[i], with
\* any owner and members for each project, and the Events are in no session
\* or all in one.
Placements == [1 .. MaxEvents -> ProjectIds]
PlaceOf(place, i) == place[((i - 1) % MaxEvents) + 1]

InitRead ==
    /\ now = 1
    /\ projects \in [ProjectIds -> [owner : Users, members : SUBSET Users,
                                    description : {"d0"}]]
    /\ \E place \in Placements, link \in SessionIds \cup {None} :
          /\ sessions = [i \in SessionIds |->
                           [project |-> PlaceOf(place, i), user_id |-> "x",
                            start_time |-> now, end_time |-> None]]
          /\ events = [i \in EventIds |->
                         [project |-> place[i], session |-> link,
                          event_type |-> "other", timestamp |-> now]]
          /\ tags = [i \in TagIds |->
                       [project |-> PlaceOf(place, i),
                        name |-> IF i % 2 = 1 THEN "t1" ELSE "t2"]]
          /\ dashboards = [i \in DashboardIds |-> [project |-> PlaceOf(place, i)]]
    /\ prompts = [i \in EventIds |->
                    [event |-> i, model_name |-> "m1", tokens |-> 0]]
    /\ responses = [i \in EventIds |->
                      [event |-> i, prompt |-> i, model_name |-> "m1",
                       tokens |-> 0, latency |-> 0]]
    /\ feedbacks = [i \in EventIds |-> [event |-> i, response |-> i, rating |-> 5]]
    /\ widgets = [i \in WidgetIds |-> [dashboard |-> ((i - 1) % MaxDashboards) + 1]]
    /\ creating = Idle
    /\ http = Exchange("none", None, None, "none")
    /\ calls = << >>

\* One list request against each such database.
ReadNext == http.op = "none" /\ ListRequest

SpecRead == InitRead /\ [][ReadNext]_vars

\* Widgets and Feedback through their own endpoints, next to the deletions
\* that cascade to them, over a populated database: each project has any
\* owner, project 1 may have a member, and Dashboard i with its Widget and
\* Event i with its AIResponse and Feedback resolve to project place[i].
InitLocked ==
    /\ now = 1
    /\ \E owner \in [ProjectIds -> Users], members \in {{}, {2}} :
          projects = [p \in ProjectIds |->
                        [owner |-> owner[p],
                         members |-> IF p = 1 THEN members ELSE {},
                         description |-> "d0"]]
    /\ \E place \in Placements :
          /\ events = [i \in EventIds |->
                         [project |-> place[i], session |-> None,
                          event_type |-> "other", timestamp |-> now]]
          /\ dashboards = [i \in DashboardIds |-> [project |-> PlaceOf(place, i)]]
    /\ sessions = << >>
    /\ tags = << >>
    /\ prompts = << >>
    /\ responses = [i \in EventIds |->
                      [event |-> i, prompt |-> None, model_name |-> "m1",
                       tokens |-> 0, latency |-> 0]]
    /\ feedbacks = [i \in EventIds |-> [event |-> i, response |-> i, rating |-> 5]]
    /\ widgets = [i \in WidgetIds |-> [dashboard |-> ((i - 1) % MaxDashboards) + 1]]
    /\ creating = Idle
    /\ http = Exchange("none", None, None, "none")
    /\ calls = << >>

LockedNext ==
    \/ \E u \in Users, w \in WidgetIds, d \in DashboardIds : UpdateWidget(u, w, d)
    \/ \E u \in Users, w \in WidgetIds : DestroyWidget(u, w)
    \/ \E u \in Users, d \in DashboardIds : DestroyDashboard(u, d)
    \/ \E u \in Users, f \in EventIds :
          UpdateFeedback(u, f, [event |-> f, response |-> f, rating |-> 1])
    \/ \E u \in Users, f \in EventIds : DestroyFeedback(u, f)
    \/ \E u \in Users, e \in EventIds : DestroyEvent(u, e)
    \/ \E u \in Users, p \in ProjectIds : DestroyProject(u, p)

SpecLocked == InitLocked /\ [][LockedNext]_vars

\* ============================================================== properties
\* Read access as the specification words it: owner or member.
OwnerOrMember(p, user) ==
    projects[p].owner = user \/ user \in projects[p].members

\* C1: for every Project P and identity U, after any sequence of project
\* creations, add_member and remove_member calls (and updates and deletes),
\* U can list and retrieve P if and only if U is owner(P) or U is in
\* members(P); P is listed once; an id that names no project is not found.
C1_ListIffOwnerOrMember ==
    \A u \in Users, p \in ProjectIds :
        IF p \in DOMAIN projects
        THEN /\ Project_get_queryset(u)[p] = 1 <=> OwnerOrMember(p, u)
             /\ Project_get_queryset(u)[p] = 0 <=> ~OwnerOrMember(p, u)
             /\ ProjectObject("GET", p, u) = "OK" <=> OwnerOrMember(p, u)
             /\ ProjectObject("GET", p, u) = "NotFound" <=> ~OwnerOrMember(p, u)
        ELSE ProjectObject("GET", p, u) = "NotFound"

\* A member was just removed while some project has a member who is not its
\* owner and some project has an identity that is neither.
C1_Witness ==
    /\ http.op = "project.remove_member" /\ http.status = "OK"
    /\ \E p \in DOMAIN projects, u \in Users :
          u \in projects[p].members /\ u # projects[p].owner
    /\ \E p \in DOMAIN projects, u \in Users : ~OwnerOrMember(p, u)

\* C2: a write to Project P (update, delete, add_member, remove_member) by
\* identity U goes through if and only if U is owner(P); a member who is not
\* the owner is answered Forbidden, and any caller other than the owner
\* leaves P and its member set unchanged.
C2_ProjectWrite(u, p, done) ==
    /\ http'.status = done <=> projects[p].owner = u
    /\ (u \in projects[p].members /\ u # projects[p].owner)
          => http'.status = "Forbidden"
    /\ u # projects[p].owner
          => /\ http'.status \in {"Forbidden", "NotFound"}
             /\ p \in DOMAIN projects' /\ projects'[p] = projects[p]

C2_OnlyOwnerWritesProject ==
    [][(http'.pk \in DOMAIN projects /\ http'.user \in Users) =>
          LET u == http'.user
              p == http'.pk
          IN CASE http'.op = "project.update" -> C2_ProjectWrite(u, p, "OK")
               [] http'.op = "project.destroy" ->
                    C2_ProjectWrite(u, p, "NoContent")
               [] http'.op = "project.add_member" ->
                    IF u # projects[p].owner \/ http'.status = "OK"
                    THEN C2_ProjectWrite(u, p, "OK")
                    ELSE \A i \in Users : ~AddMember(u, p, i)
               [] http'.op = "project.remove_member" ->
                    IF u # projects[p].owner \/ http'.status = "OK"
                    THEN C2_ProjectWrite(u, p, "OK")
                    ELSE \A i \in Users : ~RemoveMember(u, p, i)
               [] OTHER -> TRUE]_vars

\* A member who is not the owner has just been refused an update.
C2_Witness ==
    /\ http.op = "project.update" /\ http.status = "Forbidden"
    /\ http.pk \in DOMAIN projects
    /\ http.user \in projects[http.pk].members
    /\ http.user # projects[http.pk].owner

ProjectRows(p) ==
    [sessions |-> {<<s, sessions[s]>> : s \in {i \in DOMAIN sessions :
                        SessionProject(i) = p}},
     events |-> {<<e, events[e]>> : e \in {i \in DOMAIN events :
                        EventProject(i) = p}},
     prompts |-> {<<x, prompts[x]>> : x \in {i \in DOMAIN prompts :
                        PromptProject(i) = p}},
     responses |-> {<<r, responses[r]>> : r \in {i \in DOMAIN responses :
                        ResponseProject(i) = p}},
     feedbacks |-> {<<f, feedbacks[f]>> : f \in {i \in DOMAIN feedbacks :
                        FeedbackProject(i) = p}},
     tags |-> {<<t, tags[t]>> : t \in {i \in DOMAIN tags : TagProject(i) = p}},
     dashboards |-> {<<d, dashboards[d]>> : d \in {i \in DOMAIN dashboards :
                        DashboardProject(i) = p}},
     widgets |-> {<<w, widgets[w]>> : w \in {i \in DOMAIN widgets :
                        WidgetProject(i) = p}}]

\* C3: no row is ever created in, changed in or deleted from a project by a
\* request of an identity other than that project's owner.
C3_OnlyOwnerWritesRows ==
    [][\A p \in DOMAIN projects :
          ProjectRows(p)' # ProjectRows(p) => http'.user = projects[p].owner]_vars

\* ------------------------------------------------------------ C4 (code bug)
EventDependents(e) ==
    {<<"UserPrompt", x>> : x \in {i \in DOMAIN prompts : prompts[i].event = e}}
    \cup {<<"AIResponse", r>> : r \in {i \in DOMAIN responses :
                                          responses[i].event = e}}
    \cup {<<"Feedback", f>> : f \in {i \in DOMAIN feedbacks :
                                        feedbacks[i].event = e}}

\* C4: when an insert of the combined Event creation fails, no Event row and
\* no dependent row of that request exists after the request.
C4_BundleAllOrNothing ==
    (http.op = "event.create" /\ http.status = "ServerError")
        => /\ http.pk \notin DOMAIN events
           /\ EventDependents(http.pk) = {}

\* ------------------------------------------------------------ C5 (code bug)
\* C5: a creation whose payload carries Feedback but no AIResponse succeeds
\* with a Feedback row on the new Event whose response link is unset; with an
\* AIResponse in the same call the link is that AIResponse.
C5_FeedbackLink ==
    [][(InsertFeedback /\ Truthy(creating.data.feedback)) =>
          /\ http'.status = "Created"
          /\ \E f \in DOMAIN feedbacks' :
                /\ feedbacks'[f].event = creating.event
                /\ IF Truthy(creating.data.ai_response)
                   THEN /\ feedbacks'[f].response \in DOMAIN responses
                        /\ responses[feedbacks'[f].response].event = creating.event
                   ELSE feedbacks'[f].response = None]_vars

\* ------------------------------------------------------------------- C6
HasRow(table, e) == \E i \in DOMAIN table : table[i].event = e

\* C6: during the nested creation the rows appear in the order Event,
\* UserPrompt, AIResponse, Feedback; an AIResponse created together with a
\* UserPrompt has exactly that UserPrompt as its prompt, and one created
\* without a nested UserPrompt has no prompt.
C6_NestedLinks ==
    creating.pc # "idle" =>
        LET e == creating.event
            d == creating.data
        IN /\ e \in DOMAIN events
           /\ creating.pc = "user_prompt" =>
                 ~HasRow(prompts, e) /\ ~HasRow(responses, e) /\ ~HasRow(feedbacks, e)
           /\ creating.pc = "ai_response" =>
                 /\ HasRow(prompts, e) <=> d.user_prompt.given
                 /\ ~HasRow(responses, e) /\ ~HasRow(feedbacks, e)
           /\ creating.pc = "feedback" =>
                 /\ HasRow(prompts, e) <=> d.user_prompt.given
                 /\ HasRow(responses, e) <=> d.ai_response.given
                 /\ ~HasRow(feedbacks, e)
                 /\ \A r \in DOMAIN responses :
                       responses[r].event = e =>
                          IF d.user_prompt.given
                          THEN /\ responses[r].prompt \in DOMAIN prompts
                               /\ prompts[responses[r].prompt].event = e
                          ELSE responses[r].prompt = None

\* An AIResponse has just been inserted after the UserPrompt of the same call.
C6_Witness ==
    /\ creating.pc = "feedback"
    /\ creating.data.user_prompt.given /\ creating.data.ai_response.given
    /\ \E r \in DOMAIN responses :
          responses[r].event = creating.event /\ responses[r].prompt # None

\* ------------------------------------------------------------ C7 (code bug)
\* C7: a create whose payload references a project the caller cannot see has
\* the outcome of one that references an id that does not exist: it is
\* rejected and changes nothing.
C7_InvisibleAsAbsent ==
    [][\A u \in Users, d \in BundleData :
          (CreateEvent(u, d) /\ d.project \in DOMAIN projects
              /\ ~OwnerOrMember(d.project, u))
          => /\ http'.status \in {"NotFound", "BadRequest"}
             /\ UNCHANGED database]_vars

\* ------------------------------------------------------------------- C8
\* The rows the specification wants from a list request.
Wanted(op, user, q) ==
    LET Sees(p) == OwnerOrMember(p, user)
        InProject(p) == q.project = None \/ p = q.project
    IN CASE op = "project.list" -> {p \in DOMAIN projects : Sees(p)}
         [] op = "session.list" -> {s \in DOMAIN sessions :
                /\ Sees(sessions[s].project) /\ InProject(sessions[s].project)
                /\ q.user_id = "" \/ sessions[s].user_id = q.user_id}
         [] op = "event.list" -> {e \in DOMAIN events :
                /\ Sees(events[e].project) /\ InProject(events[e].project)
                /\ q.session = None \/ events[e].session = q.session
                /\ q.event_type = "" \/ events[e].event_type = q.event_type}
         [] op = "prompt.list" -> {x \in DOMAIN prompts :
                /\ Sees(events[prompts[x].event].project)
                /\ InProject(events[prompts[x].event].project)
                /\ q.model_name = "" \/ prompts[x].model_name = q.model_name}
         [] op = "response.list" -> {r \in DOMAIN responses :
                /\ Sees(events[responses[r].event].project)
                /\ InProject(events[responses[r].event].project)
                /\ q.model_name = "" \/ responses[r].model_name = q.model_name}
         [] op = "feedback.list" -> {f \in DOMAIN feedbacks :
                /\ Sees(events[feedbacks[f].event].project)
                /\ InProject(events[feedbacks[f].event].project)
                /\ q.rating = None \/ feedbacks[f].rating = q.rating}
         [] op = "tag.list" -> {t \in DOMAIN tags :
                Sees(tags[t].project) /\ InProject(tags[t].project)}
         [] op = "dashboard.list" -> {d \in DOMAIN dashboards :
                Sees(dashboards[d].project) /\ InProject(dashboards[d].project)}
         [] op = "widget.list" -> {w \in DOMAIN widgets :
                /\ Sees(dashboards[widgets[w].dashboard].project)
                /\ q.dashboard = None \/ widgets[w].dashboard = q.dashboard}

ListOps == {"project.list", "session.list", "event.list", "prompt.list",
            "response.list", "feedback.list", "tag.list", "dashboard.list",
            "widget.list"}

\* C8: whatever filters the caller supplies, a list holds each row at most
\* once and holds exactly the rows of projects the caller owns or is a member
\* of that match every supplied filter.
C8_ListsVisibleAndFiltered ==
    http.op \in ListOps =>
        /\ \A i \in DOMAIN http.rows : http.rows[i] <= 1
        /\ {i \in DOMAIN http.rows : http.rows[i] > 0}
              = Wanted(http.op, http.user, http.query)

\* An event list with a project and an event_type filter returned an Event
\* whose project joins to several membership rows for the caller, who has no
\* access to some other project.
C8_Witness ==
    /\ http.op = "event.list"
    /\ http.query.project # None /\ http.query.event_type # ""
    /\ \E e \in DOMAIN events :
          http.rows[e] = 1 /\ AccessRows(events[e].project, http.user) > 1
    /\ \E p \in DOMAIN projects : ~OwnerOrMember(p, http.user)

\* ------------------------------------------------------------ C9 (code bug)
\* C9: every Event the session events() action returns belongs to a project
\* the caller owns or is a member of.
C9_SessionEventsVisible ==
    \A u \in Users, s \in SessionIds :
        \A e \in SessionEvents(u, s).events :
            OwnerOrMember(events[e].project, u)
\* --------------------------------------------------------------------- C11
\* What one request does to a member set when it runs alone: the owner's
\* request with a known user adds or removes that user, any other request
\* changes nothing.
AloneEffect(call, p, members) ==
    IF call.user = projects[p].owner /\ call.user_id \in Users
    THEN IF call.op = "add_member" THEN members \cup {call.user_id}
         ELSE members \ {call.user_id}
    ELSE members

\* The member sets that the requests cs leave when they run one after the
\* other, in any order, starting from members.
RECURSIVE SerialResults(_, _, _)
SerialResults(cs, p, members) ==
    IF cs = {} THEN {members}
    ELSE UNION {SerialResults(cs \ {c}, p, AloneEffect(calls[c], p, members)) :
                   c \in cs}

CallsOn(p) == {c \in DOMAIN calls : calls[c].pk = p}

\* C11: whatever the interleaving of concurrent add_member and remove_member
\* requests on a project, once they have all answered the member set is the
\* one some serial order of the same requests leaves (the project starts
\* with no member); requests about different users keep each other's effect;
\* and no request of the owner about a known user fails, so two concurrent
\* adds of the same user both succeed and the user is a member.
C11_ConcurrentMembership ==
    \A p \in DOMAIN projects :
        (\A c \in CallsOn(p) : calls[c].pc = "done") =>
            /\ projects[p].members \in SerialResults(CallsOn(p), p, {})
            /\ \A c \in CallsOn(p) :
                  (calls[c].user = projects[p].owner /\ calls[c].user_id \in Users)
                     => /\ calls[c].status = "OK"
                        /\ (\A d \in CallsOn(p) :
                               calls[d].user_id = calls[c].user_id
                                  => calls[d].op = calls[c].op)
                              => (calls[c].user_id \in projects[p].members
                                     <=> calls[c].op = "add_member")

\* Two adds, of different users, were both in progress at once and have both
\* answered.
C11_Witness ==
    /\ DOMAIN calls = {1, 2}
    /\ \A c \in {1, 2} : calls[c].pc = "done" /\ calls[c].status = "OK"
                         /\ calls[c].op = "add_member" /\ calls[c].pk = calls[1].pk
    /\ calls[1].user_id # calls[2].user_id
    /\ calls[1].user_id \notin calls[2].instance.members
    /\ calls[2].user_id \notin calls[1].instance.members

\* --------------------------------------------------------- C12 (code bug)
\* The window of a stats request as the specification words it.
InWindow(stamp, days) == now - days <= stamp /\ stamp <= now

\* C12: a stats request for project P and days, answered at instant now,
\* counts in total_events exactly the Events of P whose timestamp lies in
\* [now - days, now]; so with days = 0 no Event with a past timestamp is
\* counted, and no Event with an earlier or a later timestamp is counted for
\* any days.
C12_StatsWindow ==
    [][\A u \in Users, p \in ProjectIds, days \in Days :
          (Stats(u, p, days) /\ http'.status = "OK") =>
              http'.body.total_events =
                  Cardinality({e \in DOMAIN events :
                                  /\ events[e].project = p
                                  /\ InWindow(events[e].timestamp, days)})]_vars

\* --------------------------------------------------------- C13 (code bug)
\* The Feedback rows of project p whose Event lies in the window.
FeedbackInWindow(p, days) ==
    {f \in DOMAIN feedbacks :
        /\ events[feedbacks[f].event].project = p
        /\ InWindow(events[feedbacks[f].event].timestamp, days)}

RECURSIVE RatingTotal(_)
RatingTotal(fs) ==
    IF fs = {} THEN 0
    ELSE LET f == CHOOSE g \in fs : TRUE
         IN feedbacks[f].rating + RatingTotal(fs \ {f})

IsZero(avg) == avg.num = 0 /\ avg.den = 1

\* C13: in a stats response each average is exactly 0 when its count is 0;
\* total_feedback counts every Feedback row in the window, rated or not; and
\* avg_rating is the mean of the ratings that are not null in the window
\* (0 when there is none).
C13_StatsAverages ==
    (http.op = "project.stats" /\ http.status = "OK") =>
        LET body == http.body
            fbs == FeedbackInWindow(http.pk, http.days)
            rated == {f \in fbs : feedbacks[f].rating # None}
        IN /\ body.total_prompts = 0 => IsZero(body.avg_prompt_tokens)
           /\ body.total_responses = 0 =>
                 IsZero(body.avg_response_tokens) /\ IsZero(body.avg_latency)
           /\ body.total_feedback = 0 => IsZero(body.avg_rating)
           /\ body.total_feedback = Cardinality(fbs)
           /\ IF rated = {} THEN IsZero(body.avg_rating)
              ELSE body.avg_rating.num * Cardinality(rated)
                      = RatingTotal(rated) * body.avg_rating.den

\* --------------------------------------------------------- C14 (code bug)
\* C14: a Session's duration is None until end_session is called on it, and
\* from then on it is end_time - start_time in seconds, where end_time is the
\* instant of the latest end_session call: a successful end_session sets
\* end_time to now, and no other step gives a Session an end_time or changes
\* the one it has.
C14_DurationAfterEndSession ==
    [][\A s \in DOMAIN sessions' :
          LET before == IF s \in DOMAIN sessions THEN sessions[s].end_time
                        ELSE None
          IN IF /\ http'.op = "session.end_session" /\ http'.pk = s
                /\ http'.status = "OK"
                /\ \E u \in Users : EndSession(u, s)
             THEN /\ sessions'[s].end_time = now
                  /\ duration(s)' = (now - sessions'[s].start_time) * SecondsPerDay
             ELSE /\ sessions'[s].end_time = before
                  /\ before = None => duration(s)' = None]_vars

\* --------------------------------------------------------- C15 (code bug)
\* C15: when a Project is deleted, every Session, Event, Tag, Dashboard and
\* Widget that resolved to it and every UserPrompt, AIResponse and Feedback
\* attached to one of its Events is gone afterwards, and the rows that
\* resolve to any other Project are as they were.
C15_ProjectDeleteCascade ==
    [][(/\ http'.op = "project.destroy" /\ http'.status = "NoContent"
        /\ http'.pk \in DOMAIN projects
        /\ DestroyProject(http'.user, http'.pk)) =>
          LET p == http'.pk IN
          /\ p \notin DOMAIN projects'
          /\ \A s \in DOMAIN sessions : SessionProject(s) = p => s \notin DOMAIN sessions'
          /\ \A e \in DOMAIN events : EventProject(e) = p => e \notin DOMAIN events'
          /\ \A t \in DOMAIN tags : TagProject(t) = p => t \notin DOMAIN tags'
          /\ \A d \in DOMAIN dashboards :
                DashboardProject(d) = p => d \notin DOMAIN dashboards'
          /\ \A w \in DOMAIN widgets : WidgetProject(w) = p => w \notin DOMAIN widgets'
          /\ \A x \in DOMAIN prompts : PromptProject(x) = p => x \notin DOMAIN prompts'
          /\ \A r \in DOMAIN responses :
                ResponseProject(r) = p => r \notin DOMAIN responses'
          /\ \A f \in DOMAIN feedbacks :
                FeedbackProject(f) = p => f \notin DOMAIN feedbacks'
          /\ \A q \in DOMAIN projects \ {p} :
                /\ q \in DOMAIN projects' /\ projects'[q] = projects[q]
                /\ ProjectRows(q)' = ProjectRows(q)]_vars

\* C16: no identity, the owner of the project included, updates or deletes a
\* Widget or a Feedback through its endpoint: an unsafe request on such a row
\* is never answered with success, and in every step each Widget and each
\* Feedback either stays as it is (its Event attachment included) or is
\* removed together with the row it hangs from (its Dashboard; its Event or
\* its AIResponse), that is by a cascade deletion.
LockedOps == {"widget.update", "widget.destroy",
              "feedback.update", "feedback.destroy"}

C16_WidgetFeedbackLocked ==
    [][/\ http'.op \in LockedOps => http'.status \notin {"OK", "NoContent"}
       /\ \A w \in DOMAIN widgets :
             IF w \in DOMAIN widgets' THEN widgets'[w] = widgets[w]
             ELSE widgets[w].dashboard \notin DOMAIN dashboards'
       /\ \A f \in DOMAIN feedbacks :
             IF f \in DOMAIN feedbacks' THEN feedbacks'[f] = feedbacks[f]
             ELSE \/ feedbacks[f].event \notin DOMAIN events'
                  \/ feedbacks[f].response \notin DOMAIN responses']_vars

\* The owner of a Widget's project has just been refused an update of it,
\* while a Feedback exists as well.
C16_Witness ==
    /\ http.op = "widget.update"
    /\ http.status = "Forbidden"
    /\ http.pk \in DOMAIN widgets
    /\ projects[WidgetProject(http.pk)].owner = http.user
    /\ feedbacks # << >>

====
